---- MODULE Spec2Model ----
(***************************************************************************)
(* DinarAI Telegram bot: the delivery wrapper (safe_send_message,          *)
(* safe_delete_message) of utils.py and the conversation handlers of       *)
(* handlers.py, for one chat whose updates are handled one after another   *)
(* (Spec); markdown_to_html applied to one text (SpecMd); the handlers of   *)
(* several chats run as concurrent tasks (SpecRace).                        *)
(* main.py holds a single-file copy of the same functions.                 *)
(***************************************************************************)
EXTENDS Integers, Sequences, FiniteSets, TLC

\* config.py
MAX_RETRIES == 5
INITIAL_RETRY_DELAY == 1

\* Largest retry_after (seconds) the transport puts in a rate-limit signal.
MaxRetryAfter == 2

None == "None"
HTML == "HTML"

\* Conversation state kept by the FSM storage for the chat.
Idle == "Idle"
AwaitingAnswer == "AwaitingAnswer"

\* The texts the handlers send (handlers.py string literals, by name).
TEXT_WELCOME == "welcome"
TEXT_HELP == "help"
TEXT_RESTARTED == "restarted"
TEXT_ECHO == "ask_your_question"
TEXT_PROCESSING == "processing"
TEXT_ERROR_REQUEST == "error_processing_request"
TEXT_TOO_LONG == "took_too_long"
TEXT_ERROR_GENERIC == "error_try_later"
\* response_text built from the remote service's JSON body.
TEXT_RESPONSE == "response_text"
\* str(e) of the exception caught in process_question (only logged).
TEXT_EXCEPTION == "exception_detail"

VARIABLES
    fsm,                 \* conversation state of the chat
    pc,                  \* position of the handler task
    inbound,             \* kind of the update being handled
    sendText, sendMode,  \* arguments of the running safe_send_message call
    attempt,             \* loop variable of safe_send_message
    retry_delay,         \* local variable of safe_send_message
    log,                 \* transport calls of the running/last safe_send_message
    ret,                 \* how the running/last safe_send_message ended
    processing_message,  \* local variable of process_question
    branch,              \* which branch of process_question is executing
    del,                 \* outcome of the last safe_delete_message call
    posts,               \* remote POSTs issued for this update
    deleteCount,         \* safe_delete_message calls made for this update
    events,              \* outbound effects of this update, in order
    escaped,             \* the handler ended by raising to the dispatcher
    message,             \* the update being handled: chat id and text
    dispatchState,       \* conversation state the dispatcher's filters read
    payload,             \* JSON body of the remote POST
    data,                \* JSON body of the remote service's 200 response
    response_text,       \* local variable of process_question (200 branch)
    delivered,           \* texts the transport accepted for this update
    mdIn, mdOut, mdAgain, mdPc,   \* a markdown_to_html call and its result
    cfsm,                \* conversation state of each chat (concurrent tasks)
    tasks                \* the concurrent handler tasks

vars == <<fsm, pc, inbound, sendText, sendMode, attempt, retry_delay, log, ret,
          processing_message, branch, del, posts, deleteCount, events, escaped,
          message, dispatchState, payload, data, response_text, delivered,
          mdIn, mdOut, mdAgain, mdPc, cfsm, tasks>>

sendVars == <<sendText, sendMode, attempt, retry_delay, log, ret>>
flowVars == <<processing_message, branch, del, posts, deleteCount>>
updateVars == <<message, dispatchState>>
bodyVars == <<payload, data, response_text>>
mdVars == <<mdIn, mdOut, mdAgain, mdPc>>
raceVars == <<cfsm, tasks>>
\* What the handlers of the sequential chat leave alone.
otherVars == <<mdVars, raceVars>>
\* All state of the sequential chat.
chatVars == <<fsm, pc, inbound, sendVars, flowVars, events, escaped,
              updateVars, bodyVars, delivered>>

----------------------------------------------------------------------------
\* Results of safe_send_message.
Running == [kind |-> "running", id |-> 0]
NotCalled == [kind |-> "idle", id |-> 0]
Handle(n) == [kind |-> "handle", id |-> n]
ReturnedNone == [kind |-> "none", id |-> 0]
Raised(n) == [kind |-> "raised", id |-> n]

\* message_obj.answer(text, parse_mode=parse_mode)
TransportArgs_dropMode(text, parse_mode) == [text |-> text, parse_mode |-> None]
TransportArgs(text, parse_mode) == [text |-> text, parse_mode |-> parse_mode]

\* `if attempt == MAX_RETRIES - 1: raise`
IsLastAttempt_offByOne(a) == a = MAX_RETRIES
IsLastAttempt(a) == a = MAX_RETRIES - 1

\* `retry_delay *= 2`
Backoff_linear(d) == d + INITIAL_RETRY_DELAY
Backoff(d) == d * 2

\* The rate-limit branch: sleeps retry_after and leaves retry_delay alone.
RateLimitBranch_backoff(retry_after, d) == [sleep |-> retry_after, delay |-> d * 2]
RateLimitBranch(retry_after, d) == [sleep |-> retry_after, delay |-> d]

\* `for attempt in range(MAX_RETRIES)`: the next value after a rate-limited pass.
NextAttemptAfterRateLimit_free(a) == a
NextAttemptAfterRateLimit(a) == a + 1

Call(out, retry_after, slept, sleep) ==
    [args |-> TransportArgs(sendText, sendMode), out |-> out,
     retry_after |-> retry_after, slept |-> slept, sleep |-> sleep]

Event(ev, text) == [ev |-> ev, text |-> text]

\* The first transport call of a safe_send_message call is recorded as an event.
SendEvent == IF log = <<>> THEN Append(events, Event("send", sendText)) ELSE events

\* Entry of safe_send_message: `retry_delay = INITIAL_RETRY_DELAY`, loop starts.
SendBegin(text, parse_mode) ==
    /\ sendText' = text
    /\ sendMode' = parse_mode
    /\ attempt' = 0
    /\ retry_delay' = INITIAL_RETRY_DELAY
    /\ log' = <<>>
    /\ ret' = Running

\* One pass of the loop in which message_obj.answer succeeds.
AttemptOk ==
    /\ ret = Running
    /\ log' = Append(log, Call("ok", 0, FALSE, 0))
    /\ ret' = Handle(Len(log) + 1)
    /\ events' = SendEvent
    /\ delivered' = Append(delivered, sendText)
    /\ UNCHANGED <<fsm, pc, inbound, sendText, sendMode, attempt, retry_delay,
                   flowVars, escaped, updateVars, bodyVars, otherVars>>

\* One pass in which message_obj.answer raises TelegramRetryAfter.
AttemptRateLimited(retry_after) ==
    /\ ret = Running
    /\ LET b == RateLimitBranch(retry_after, retry_delay)
           a == NextAttemptAfterRateLimit(attempt)
       IN /\ log' = Append(log, Call("rate", retry_after, TRUE, b.sleep))
          /\ retry_delay' = b.delay
          /\ attempt' = a
          /\ ret' = IF a < MAX_RETRIES THEN Running ELSE ReturnedNone
    /\ events' = SendEvent
    /\ UNCHANGED <<fsm, pc, inbound, sendText, sendMode, flowVars, escaped,
                   updateVars, bodyVars, delivered, otherVars>>

\* One pass in which message_obj.answer raises any other Exception.
AttemptError ==
    /\ ret = Running
    /\ IF IsLastAttempt(attempt)
       THEN /\ log' = Append(log, Call("err", 0, FALSE, 0))
            /\ ret' = Raised(Len(log) + 1)
            /\ UNCHANGED <<attempt, retry_delay>>
       ELSE /\ log' = Append(log, Call("err", 0, TRUE, retry_delay))
            /\ retry_delay' = Backoff(retry_delay)
            /\ attempt' = attempt + 1
            /\ ret' = IF attempt + 1 < MAX_RETRIES THEN Running ELSE ReturnedNone
    /\ events' = SendEvent
    /\ UNCHANGED <<fsm, pc, inbound, sendText, sendMode, flowVars, escaped,
                   updateVars, bodyVars, delivered, otherVars>>

----------------------------------------------------------------------------
\* safe_delete_message: one bot.delete_message call whose outcome is `out`.
DeleteOutcomes == {"ok", "not_found", "bad_request", "other_error"}

safe_delete_message_noCatchAll(out) ==
    IF out = "ok" THEN [calls |-> 1, result |-> "returned"]
    ELSE IF out \in {"not_found", "bad_request"}
         THEN [calls |-> 1, result |-> "returned"]
         ELSE [calls |-> 1, result |-> "raised"]

safe_delete_message(out) ==
    IF out = "ok" THEN [calls |-> 1, result |-> "returned"]
    ELSE IF out \in {"not_found", "bad_request"}
         THEN [calls |-> 1, result |-> "returned"]    \* except TelegramBadRequest
         ELSE [calls |-> 1, result |-> "returned"]    \* except Exception

----------------------------------------------------------------------------
\* markdown_to_html.  A text is a sequence of characters; a tag written by a
\* substitution is one element of the sequence ("<b>", "</i>", ...), which no
\* pattern can match in part since the patterns' literals are '#', ' ', '*'
\* and the backtick only.

NL == "\n"
\* The backtick character (a TLA+ string cannot hold it).
BACKTICK == "backtick"

\* t has the characters of p at positions i, i+1, ...
StartsAt(t, i, p) ==
    /\ i + Len(p) - 1 <= Len(t)
    /\ \A k \in 1..Len(p) : t[i + k - 1] = p[k]

\* `$` with re.MULTILINE: the first position at or after i that is the end of
\* the text or holds a newline.
RECURSIVE LineEnd(_, _)
LineEnd(t, i) == IF i > Len(t) \/ t[i] = NL THEN i ELSE LineEnd(t, i + 1)

\* The literal part of the heading patterns: '^### ', '^## ', '^# '.
HeadingPrefix_noSpace(k) == [i \in 1..k |-> "#"]
HeadingPrefix(k) == [i \in 1..k |-> "#"] \o <<" ">>

\* re.sub of a heading pattern (prefix, lazy group, `$`; re.MULTILINE) on t,
\* from the line that starts at position i on.
RECURSIVE HeadingSub(_, _, _, _, _)
HeadingSub(t, i, prefix, open, close) ==
    IF i > Len(t) THEN <<>>
    ELSE LET e == LineEnd(t, i)
             line == IF StartsAt(t, i, prefix)
                     THEN open \o SubSeq(t, i + Len(prefix), e - 1) \o close
                     ELSE SubSeq(t, i, e - 1)
         IN IF e > Len(t) THEN line
            ELSE line \o <<NL>> \o HeadingSub(t, e + 1, prefix, open, close)

\* Where the lazy group that starts at j stops: the first position at
\* or after j where the closing delimiter d begins, 0 when a newline (which
\* `.` does not match) or the end of the text comes first.
RECURSIVE FindClose(_, _, _)
FindClose(t, j, d) ==
    IF j + Len(d) - 1 > Len(t) THEN 0
    ELSE IF StartsAt(t, j, d) THEN j
    ELSE IF t[j] = NL THEN 0
    ELSE FindClose(t, j + 1, d)

\* re.sub of an inline pattern (d, lazy group, d) on t from position i on:
\* leftmost matches, none overlapping.
RECURSIVE InlineSub(_, _, _, _, _)
InlineSub(t, i, d, open, close) ==
    IF i > Len(t) THEN <<>>
    ELSE LET j == IF StartsAt(t, i, d) THEN FindClose(t, i + Len(d), d) ELSE 0
         IN IF j # 0
            THEN open \o SubSeq(t, i + Len(d), j - 1) \o close
                      \o InlineSub(t, j + Len(d), d, open, close)
            ELSE <<t[i]>> \o InlineSub(t, i + 1, d, open, close)

\* The three heading substitutions, in the order of the code.
Headings(text) ==
    LET h3 == HeadingSub(text, 1, HeadingPrefix(3), <<"<b>", "<i>">>, <<"</i>", "</b>">>)
        h2 == HeadingSub(h3, 1, HeadingPrefix(2), <<"<b>">>, <<"</b>">>)
    IN HeadingSub(h2, 1, HeadingPrefix(1), <<"<b>", "<u>">>, <<"</u>", "</b>">>)

Bold(t) == InlineSub(t, 1, <<"*", "*">>, <<"<b>">>, <<"</b>">>)
Italic(t) == InlineSub(t, 1, <<"*">>, <<"<i>">>, <<"</i>">>)
Code(t) == InlineSub(t, 1, <<BACKTICK>>, <<"<code>">>, <<"</code>">>)

\* text.strip() slipped in before the substitutions.
RECURSIVE Strip(_)
Strip(t) ==
    IF t = <<>> THEN t
    ELSE IF t[1] \in {" ", NL} THEN Strip(Tail(t))
    ELSE IF t[Len(t)] \in {" ", NL} THEN Strip(SubSeq(t, 1, Len(t) - 1))
    ELSE t

markdown_to_html_strip(text) == Code(Italic(Bold(Headings(Strip(text)))))
markdown_to_html_italicFirst(text) == Code(Bold(Italic(Headings(text))))
markdown_to_html(text) == Code(Italic(Bold(Headings(text))))

----------------------------------------------------------------------------
\* register_handlers: the first registered handler whose filter matches.
Inbound == {"start", "help", "restart", "text"}

Route_stateFirst(kind, state) ==
    IF state = AwaitingAnswer THEN "process_question"
    ELSE IF kind = "start" THEN "cmd_start"
    ELSE IF kind = "help" THEN "cmd_help"
    ELSE IF kind = "restart" THEN "cmd_restart"
    ELSE "echo"

Route(kind, state) ==
    IF kind = "start" THEN "cmd_start"
    ELSE IF kind = "help" THEN "cmd_help"
    ELSE IF kind = "restart" THEN "cmd_restart"
    ELSE IF state = AwaitingAnswer THEN "process_question"
    ELSE "echo"

\* `if processing_message:`
HasPlaceholder_never(m) == FALSE
HasPlaceholder(m) == m.kind = "handle"

\* Outcome of the remote POST -> branch of process_question.
RemoteOutcomes == {"200", "malformed", "non200", "timeout", "error"}

BranchOf(outcome) ==
    CASE outcome = "200" -> "ok"
      [] outcome = "non200" -> "non200"
      [] outcome = "timeout" -> "timeout"
      [] OTHER -> "error"

\* The text process_question sends in each branch.
FinalText_leak(b) ==
    CASE b = "ok" -> TEXT_RESPONSE
      [] b = "non200" -> TEXT_ERROR_REQUEST
      [] b = "timeout" -> TEXT_TOO_LONG
      [] OTHER -> TEXT_EXCEPTION
FinalText(b) ==
    CASE b = "ok" -> TEXT_RESPONSE
      [] b = "non200" -> TEXT_ERROR_REQUEST
      [] b = "timeout" -> TEXT_TOO_LONG
      [] OTHER -> TEXT_ERROR_GENERIC

FinalMode(b) == IF b = "ok" THEN HTML ELSE None

\* Branches that run inside the `try:` block (an exception raised there is
\* caught by `except Exception`); the other two run inside an except clause.
InTry_all(b) == TRUE
InTry(b) == b \in {"ok", "non200"}

\* The chat of the sequential model and the texts of its updates.
CHAT_ID == 1
Questions == {"What is riba?", "What is sukuk?"}
TextsOf(kind) == IF kind = "text" THEN Questions ELSE {"/" \o kind}

\* `payload = {"chat_id": chat_id, "question": question}`
Payload(m) == [chat_id |-> m.chat_id, question |-> m.text]

\* JSON bodies of a 200 response: `keys` are the keys present in the object.
NoBody == [keys |-> {}, answer |-> <<>>, sources |-> <<>>, urls |-> <<>>]
Bodies ==
    { [keys |-> {"answer", "sources"},
       answer |-> <<"*", "*", "Riba", "*", "*", " is prohibited">>,
       sources |-> << <<"Quran 2:275">> >>, urls |-> <<>>],
      [keys |-> {"answer", "urls"},
       answer |-> <<"#", " ", "Sukuk">>,
       sources |-> <<>>, urls |-> << <<"u1">>, <<"*", "u2", "*">> >>],
      NoBody }
BodiesOf(outcome) == IF outcome = "200" THEN Bodies ELSE {NoBody}

\* dict.get(key, default)
Get(body, key, default) == IF key \in body.keys THEN body[key] ELSE default

\* The default of data.get("answer", ...) and the header of the sources list.
DEFAULT_ANSWER == <<"no_answer">>
SOURCES_HEADER == "sources_header"
\* The key process_question reads the list of sources from.
SourcesKey == "urls"

\* `for i, source in enumerate(sources, 1): response_text += f"{i}. ..."`
RECURSIVE SourceLines(_, _)
SourceLines(sources, i) ==
    IF i > Len(sources) THEN <<>>
    ELSE <<ToString(i), ". ">> \o markdown_to_html(sources[i]) \o <<NL>>
            \o SourceLines(sources, i + 1)

\* response_text of the 200 branch.
ResponseText(body) ==
    LET answer == markdown_to_html(Get(body, "answer", DEFAULT_ANSWER))
        sources == Get(body, SourcesKey, <<>>)
    IN answer \o <<NL, NL>> \o
       (IF sources # <<>> THEN <<SOURCES_HEADER, NL>> \o SourceLines(sources, 1)
        ELSE <<>>)

\* The dispatcher hands the next update of the chat to its handler.
Dispatch(kind, text) ==
    /\ pc \in {"idle", "done"}
    /\ inbound' = kind
    /\ message' = [chat_id |-> CHAT_ID, text |-> text]
    /\ dispatchState' = fsm
    /\ payload' = None
    /\ data' = NoBody
    /\ response_text' = <<>>
    /\ delivered' = <<>>
    /\ pc' = Route(kind, fsm)
    /\ processing_message' = NotCalled
    /\ branch' = None
    /\ del' = [calls |-> 0, result |-> None]
    /\ posts' = 0
    /\ deleteCount' = 0
    /\ events' = <<>>
    /\ escaped' = FALSE
    /\ sendText' = None /\ sendMode' = None /\ attempt' = 0
    /\ retry_delay' = 0 /\ log' = <<>> /\ ret' = NotCalled
    /\ UNCHANGED <<fsm, otherVars>>

\* A handler's direct `await message.answer(text)`: returns or raises.
Answer(text, ok, next) ==
    /\ events' = Append(events, Event("send", text))
    /\ pc' = IF ok THEN next ELSE "done"
    /\ escaped' = ~ok
    /\ delivered' = IF ok THEN Append(delivered, text) ELSE delivered
    /\ UNCHANGED <<inbound, sendVars, flowVars, updateVars, bodyVars, otherVars>>

CmdStartClear ==
    /\ pc = "cmd_start"
    /\ fsm' = Idle
    /\ pc' = "cmd_start_answer"
    /\ UNCHANGED <<inbound, sendVars, flowVars, events, escaped,
                   updateVars, bodyVars, delivered, otherVars>>

CmdStartAnswer(ok) ==
    /\ pc = "cmd_start_answer"
    /\ Answer(TEXT_WELCOME, ok, "cmd_start_set")
    /\ UNCHANGED fsm

CmdStartSet ==
    /\ pc = "cmd_start_set"
    /\ fsm' = AwaitingAnswer
    /\ pc' = "done"
    /\ UNCHANGED <<inbound, sendVars, flowVars, events, escaped,
                   updateVars, bodyVars, delivered, otherVars>>

CmdHelp(ok) ==
    /\ pc = "cmd_help"
    /\ Answer(TEXT_HELP, ok, "done")
    /\ UNCHANGED fsm

CmdRestartClear ==
    /\ pc = "cmd_restart"
    /\ fsm' = Idle
    /\ pc' = "cmd_restart_answer"
    /\ UNCHANGED <<inbound, sendVars, flowVars, events, escaped,
                   updateVars, bodyVars, delivered, otherVars>>

CmdRestartAnswer(ok) ==
    /\ pc = "cmd_restart_answer"
    /\ Answer(TEXT_RESTARTED, ok, "cmd_restart_set")
    /\ UNCHANGED fsm

CmdRestartSet_notSet ==
    /\ pc = "cmd_restart_set"
    /\ pc' = "done"
    /\ UNCHANGED <<fsm, inbound, sendVars, flowVars, events, escaped,
                   updateVars, bodyVars, delivered, otherVars>>

CmdRestartSet ==
    /\ pc = "cmd_restart_set"
    /\ fsm' = AwaitingAnswer
    /\ pc' = "done"
    /\ UNCHANGED <<inbound, sendVars, flowVars, events, escaped,
                   updateVars, bodyVars, delivered, otherVars>>

Echo(ok) ==
    /\ pc = "echo"
    /\ Answer(TEXT_ECHO, ok, "done")
    /\ UNCHANGED fsm

----------------------------------------------------------------------------
\* process_question

\* `processing_message = None`, then the placeholder send starts.
ProcessQuestionBegin ==
    /\ pc = "process_question"
    /\ processing_message' = ReturnedNone
    /\ SendBegin(TEXT_PROCESSING, None)
    /\ pc' = "pq_placeholder"
    /\ UNCHANGED <<fsm, inbound, branch, del, posts, deleteCount, events, escaped,
                   updateVars, bodyVars, delivered, otherVars>>

\* The placeholder send ended: `except Exception: return`, or go on to the POST.
PlaceholderDone ==
    /\ pc = "pq_placeholder"
    /\ ret.kind \in {"handle", "none", "raised"}
    /\ IF ret.kind = "raised"
       THEN pc' = "done" /\ UNCHANGED processing_message
       ELSE pc' = "pq_post" /\ processing_message' = ret
    /\ UNCHANGED <<fsm, inbound, sendVars, branch, del, posts, deleteCount,
                   events, escaped, updateVars, bodyVars, delivered, otherVars>>

\* What follows once the branch is known: the placeholder's deletion when
\* there is one, else the send of the branch's text.
AfterBranch(b) ==
    IF HasPlaceholder(processing_message)
    THEN pc' = "pq_delete" /\ UNCHANGED sendVars
    ELSE pc' = "pq_final" /\ SendBegin(FinalText(b), FinalMode(b))

\* session.post(...) and the reading of the response.
RemoteCall(outcome, body) ==
    /\ pc = "pq_post"
    /\ payload' = Payload(message)
    /\ data' = body
    /\ response_text' = IF outcome = "200" THEN ResponseText(body) ELSE <<>>
    /\ posts' = posts + 1
    /\ events' = Append(events, Event("post", outcome))
    /\ branch' = BranchOf(outcome)
    /\ AfterBranch(BranchOf(outcome))
    /\ UNCHANGED <<fsm, inbound, processing_message, del, deleteCount, escaped,
                   updateVars, delivered, otherVars>>

\* safe_delete_message(bot, processing_message.chat.id, ...message_id)
DeletePlaceholder(out) ==
    /\ pc = "pq_delete"
    /\ del' = safe_delete_message(out)
    /\ deleteCount' = deleteCount + 1
    /\ events' = Append(events, Event("delete", out))
    /\ IF del'.result = "returned"
       THEN /\ pc' = "pq_final"
            /\ SendBegin(FinalText(branch), FinalMode(branch))
            /\ UNCHANGED <<branch, escaped>>
       ELSE IF InTry(branch)
            THEN /\ branch' = "error"
                 /\ pc' = "pq_delete"
                 /\ UNCHANGED <<sendVars, escaped>>
            ELSE /\ pc' = "done"
                 /\ escaped' = TRUE
                 /\ UNCHANGED <<sendVars, branch>>
    /\ UNCHANGED <<fsm, inbound, processing_message, posts,
                   updateVars, bodyVars, delivered, otherVars>>

\* The send of the answer or of an error text ended.
FinalDone ==
    /\ pc = "pq_final"
    /\ ret.kind \in {"handle", "none", "raised"}
    /\ IF ret.kind = "raised" /\ InTry(branch)
       THEN /\ branch' = "error"
            /\ AfterBranch("error")
            /\ UNCHANGED escaped
       ELSE /\ pc' = "done"
            /\ escaped' = (ret.kind = "raised")
            /\ UNCHANGED <<sendVars, branch>>
    /\ UNCHANGED <<fsm, inbound, processing_message, del, posts, deleteCount, events,
                   updateVars, bodyVars, delivered, otherVars>>

----------------------------------------------------------------------------
\* The parts of the state the sequential chat does not use, at rest.
MdIdle == mdIn = <<>> /\ mdOut = <<>> /\ mdAgain = <<>> /\ mdPc = "idle"
RaceIdle == cfsm = <<>> /\ tasks = <<>>

ChatInit ==
    /\ fsm = Idle
    /\ pc = "idle"
    /\ inbound = None
    /\ sendText = None /\ sendMode = None /\ attempt = 0
    /\ retry_delay = 0 /\ log = <<>> /\ ret = NotCalled
    /\ processing_message = NotCalled
    /\ branch = None
    /\ del = [calls |-> 0, result |-> None]
    /\ posts = 0
    /\ deleteCount = 0
    /\ events = <<>>
    /\ escaped = FALSE
    /\ message = [chat_id |-> CHAT_ID, text |-> ""]
    /\ dispatchState = Idle
    /\ payload = None
    /\ data = NoBody
    /\ response_text = <<>>
    /\ delivered = <<>>

Init ==
    /\ ChatInit
    /\ MdIdle
    /\ RaceIdle

Next ==
    \/ \E kind \in Inbound : \E text \in TextsOf(kind) : Dispatch(kind, text)
    \/ CmdStartClear
    \/ \E ok \in BOOLEAN : CmdStartAnswer(ok)
    \/ CmdStartSet
    \/ \E ok \in BOOLEAN : CmdHelp(ok)
    \/ CmdRestartClear
    \/ \E ok \in BOOLEAN : CmdRestartAnswer(ok)
    \/ CmdRestartSet
    \/ \E ok \in BOOLEAN : Echo(ok)
    \/ ProcessQuestionBegin
    \/ AttemptOk
    \/ \E retry_after \in 1..MaxRetryAfter : AttemptRateLimited(retry_after)
    \/ AttemptError
    \/ PlaceholderDone
    \/ \E outcome \in RemoteOutcomes : \E body \in BodiesOf(outcome) :
            RemoteCall(outcome, body)
    \/ \E out \in DeleteOutcomes : DeletePlaceholder(out)
    \/ FinalDone

Spec == Init /\ [][Next]_vars

----------------------------------------------------------------------------
\* markdown_to_html applied to one text, and to its own result.

\* Longest text drawn over the whole alphabet.
MaxTextLen == 5
\* Longest text before, inside and after a `**...**` run.
MaxPartLen == 1

MdChars == {"#", "*", BACKTICK, " ", NL, "a"}
SeqsUpTo(n) == UNION {[1..k -> MdChars] : k \in 0..n}
RunTexts ==
    {pre \o <<"*", "*">> \o x \o <<"*", "*">> \o post :
        pre \in SeqsUpTo(MaxPartLen), x \in SeqsUpTo(MaxPartLen),
        post \in SeqsUpTo(MaxPartLen)}
MdTexts == SeqsUpTo(MaxTextLen) \cup RunTexts

MdInit ==
    /\ ChatInit
    /\ RaceIdle
    /\ mdIn \in MdTexts
    /\ mdOut = <<>>
    /\ mdAgain = <<>>
    /\ mdPc = "ready"

Transform ==
    /\ mdPc = "ready"
    /\ mdOut' = markdown_to_html(mdIn)
    /\ mdPc' = "once"
    /\ UNCHANGED <<mdIn, mdAgain, chatVars, raceVars>>

TransformAgain ==
    /\ mdPc = "once"
    /\ mdAgain' = markdown_to_html(mdOut)
    /\ mdPc' = "twice"
    /\ UNCHANGED <<mdIn, mdOut, chatVars, raceVars>>

MdNext ==
    \/ Transform
    \/ TransformAgain

SpecMd == MdInit /\ [][MdNext]_vars

----------------------------------------------------------------------------
\* Updates handled as concurrent tasks (start_polling runs every update's
\* handler as a task of its own), as far as the conversation state goes: each
\* step is one stretch of a handler between two awaits.

NumTasks == 2
NumChats == 2
TaskIds == 1..NumTasks
Chats == 1..NumChats

\* The storage key of a chat's FSMContext.
StateKey_shared(c) == 1
StateKey(c) == c

\* `raced`: the routing read the state while another handler of the chat was
\* between clear and set; `before`: the state the handler's clear replaced.
IdleTask == [chat |-> 0, kind |-> None, handler |-> None, pc |-> "idle",
             raced |-> FALSE, before |-> None]

\* A handler of chat c is between its state.clear() and its set_state().
ClearedNotSet(u, c) ==
    /\ tasks[u].chat = c
    /\ tasks[u].handler \in {"cmd_start", "cmd_restart"}
    /\ tasks[u].pc \in {"answer", "set"}

FirstStep(handler) ==
    CASE handler \in {"cmd_start", "cmd_restart"} -> "clear"
      [] handler = "process_question" -> "run"
      [] OTHER -> "answer"

RaceInit ==
    /\ ChatInit
    /\ MdIdle
    /\ cfsm = [c \in Chats |-> Idle]
    /\ tasks = [t \in TaskIds |-> IdleTask]

\* The dispatcher's filters pick the handler of an update of chat c and the
\* handler starts as task t.
RaceDispatch(t, c, kind) ==
    /\ tasks[t].pc = "idle"
    /\ LET handler == Route(kind, cfsm[StateKey(c)])
       IN tasks' = [tasks EXCEPT ![t] =
                      [chat |-> c, kind |-> kind, handler |-> handler,
                       pc |-> FirstStep(handler),
                       raced |-> \E u \in TaskIds \ {t} : ClearedNotSet(u, c),
                       before |-> None]]
    /\ UNCHANGED <<cfsm, chatVars, mdVars>>

\* `await state.clear()` of cmd_start and cmd_restart.
RaceClear(t) ==
    /\ tasks[t].pc = "clear"
    /\ cfsm' = [cfsm EXCEPT ![StateKey(tasks[t].chat)] = Idle]
    /\ tasks' = [tasks EXCEPT ![t].pc = "answer",
                              ![t].before = cfsm[StateKey(tasks[t].chat)]]
    /\ UNCHANGED <<chatVars, mdVars>>

\* `await message.answer(...)` of cmd_start, cmd_restart, cmd_help and echo:
\* when it raises, or when nothing follows it, the handler is over.
RaceAnswer(t, ok) ==
    /\ tasks[t].pc = "answer"
    /\ tasks' = [tasks EXCEPT ![t] =
                    IF ok /\ tasks[t].handler \in {"cmd_start", "cmd_restart"}
                    THEN [@ EXCEPT !.pc = "set"]
                    ELSE IdleTask]
    /\ UNCHANGED <<cfsm, chatVars, mdVars>>

\* `await state.set_state(UserStates.waiting_for_question)`.
RaceSet(t) ==
    /\ tasks[t].pc = "set"
    /\ cfsm' = [cfsm EXCEPT ![StateKey(tasks[t].chat)] = AwaitingAnswer]
    /\ tasks' = [tasks EXCEPT ![t] = IdleTask]
    /\ UNCHANGED <<chatVars, mdVars>>

\* process_question from start to end: it never uses its `state` argument.
RaceQuestion(t) ==
    /\ tasks[t].pc = "run"
    /\ tasks' = [tasks EXCEPT ![t] = IdleTask]
    /\ UNCHANGED <<cfsm, chatVars, mdVars>>

RaceNext ==
    \/ \E t \in TaskIds, c \in Chats, kind \in Inbound : RaceDispatch(t, c, kind)
    \/ \E t \in TaskIds : RaceClear(t)
    \/ \E t \in TaskIds, ok \in BOOLEAN : RaceAnswer(t, ok)
    \/ \E t \in TaskIds : RaceSet(t)
    \/ \E t \in TaskIds : RaceQuestion(t)

SpecRace == RaceInit /\ [][RaceNext]_vars

----------------------------------------------------------------------------
\* Vocabulary of the properties.

RECURSIVE Pow2(_)
Pow2(n) == IF n = 0 THEN 1 ELSE 2 * Pow2(n - 1)

Finished == ret.kind \in {"handle", "none", "raised"}
Calls == 1..Len(log)
AllOut(o) == \A i \in Calls : log[i].out = o
\* Number of non-rate-limit failures among the first i transport calls.
ErrorsUpTo(i) == Cardinality({j \in 1..i : log[j].out = "err"})
\* The sleeps taken in the exponential-backoff branch, in order.
IsBackoffSleep(c) == c.out = "err" /\ c.slept
BackoffSleeps == SelectSeq(log, IsBackoffSleep)
\* N non-rate-limit failures followed by one success.
FailsThenSucceeds(n) ==
    /\ Len(log) = n + 1
    /\ \A i \in 1..n : log[i].out = "err"
    /\ log[n + 1].out = "ok"

SendEvents == {i \in 1..Len(events) : events[i].ev = "send"}
PostEvents == {i \in 1..Len(events) : events[i].ev = "post"}
DeleteEvents == {i \in 1..Len(events) : events[i].ev = "delete"}
InQuestionFlow == events # <<>> /\ events[1] = Event("send", TEXT_PROCESSING)
FinalTexts == {TEXT_RESPONSE, TEXT_ERROR_REQUEST, TEXT_TOO_LONG, TEXT_ERROR_GENERIC}
StaticErrorTexts == {TEXT_ERROR_REQUEST, TEXT_TOO_LONG, TEXT_ERROR_GENERIC}

----------------------------------------------------------------------------
\* C1: whenever safe_send_message has finished and no transport call of it
\* succeeded, it ended by raising (it did not return normally without a
\* handle), whatever the last failure was.
C1_RaisesWhenNothingSucceeded ==
    (Finished /\ log # <<>> /\ \A i \in Calls : log[i].out # "ok")
        => ret.kind = "raised"

\* C2: with a transport that fails with a non-rate-limit error on every call,
\* safe_send_message makes exactly MAX_RETRIES calls, never a further one,
\* then raises the error of the last call, and takes no sleep after it.
C2_AlwaysFailingTransport ==
    AllOut("err") =>
        /\ Len(log) <= MAX_RETRIES
        /\ (ret = Running => Len(log) < MAX_RETRIES)
        /\ Finished =>
            /\ Len(log) = MAX_RETRIES
            /\ ret = Raised(MAX_RETRIES)
            /\ ~log[Len(log)].slept

C2_Witness ==
    /\ AllOut("err")
    /\ Len(log) = MAX_RETRIES
    /\ ret = Raised(MAX_RETRIES)

\* C3: after N non-rate-limit failures and then a success (1 <= N <
\* MAX_RETRIES) safe_send_message returns the handle of the successful call
\* and the sleep before that call was INITIAL_RETRY_DELAY * 2^(N-1); every
\* backoff sleep is double the backoff sleep before it.
C3_BackoffDoubles ==
    /\ \A n \in 1..(MAX_RETRIES - 1) :
         FailsThenSucceeds(n) =>
            /\ ret = Handle(n + 1)
            /\ log[n].slept
            /\ log[n].sleep = INITIAL_RETRY_DELAY * Pow2(n - 1)
    /\ \A k \in 2..Len(BackoffSleeps) :
         BackoffSleeps[k].sleep = 2 * BackoffSleeps[k - 1].sleep

C3_Witness ==
    /\ FailsThenSucceeds(3)
    /\ ret = Handle(4)
    /\ log[3].sleep = 4

\* C4: on a rate-limit signal safe_send_message sleeps exactly retry_after and
\* the local backoff delay stays as it was: the sleep after the k-th
\* non-rate-limit failure is INITIAL_RETRY_DELAY * 2^(k-1) however many
\* rate-limit signals came before it.
C4_RateLimitLeavesBackoffAlone ==
    /\ \A i \in Calls :
         /\ log[i].out = "rate" => log[i].slept /\ log[i].sleep = log[i].retry_after
         /\ IsBackoffSleep(log[i]) =>
                log[i].sleep = INITIAL_RETRY_DELAY * Pow2(ErrorsUpTo(i) - 1)
    /\ ret = Running => retry_delay = INITIAL_RETRY_DELAY * Pow2(Len(BackoffSleeps))

C4_Witness ==
    /\ Len(log) = 4
    /\ log[1].out = "rate" /\ log[1].sleep = 2
    /\ log[2].out = "err" /\ log[2].sleep = 1
    /\ log[3].out = "rate" /\ log[3].sleep = 1
    /\ log[4].out = "err" /\ log[4].sleep = 2

\* C5: every pass of the loop uses up one attempt, so safe_send_message ends
\* after at most MAX_RETRIES transport calls; a transport that rate-limits
\* every call uses up the budget with no exponential-backoff sleep taken.
C5_SharedAttemptBudget ==
    /\ Len(log) <= MAX_RETRIES
    /\ ret = Running => attempt = Len(log) /\ attempt < MAX_RETRIES
    /\ Len(log) = MAX_RETRIES => Finished
    /\ (AllOut("rate") /\ Finished) =>
            /\ Len(log) = MAX_RETRIES
            /\ BackoffSleeps = <<>>
            /\ \A i \in Calls : log[i].sleep = log[i].retry_after

C5_Witness ==
    /\ AllOut("rate")
    /\ Len(log) = MAX_RETRIES
    /\ Finished
    /\ BackoffSleeps = <<>>

\* C6: every transport call of one safe_send_message call, the first and all
\* retries, carries the text and the parse_mode the caller passed in.
C6_RetriesResendSameContent ==
    \A i \in Calls :
        /\ log[i].args.text = sendText
        /\ log[i].args.parse_mode = sendMode
        /\ log[i].args = log[1].args

C6_Witness ==
    /\ Len(log) = 3
    /\ sendText = TEXT_RESPONSE
    /\ sendMode = HTML
    /\ log[1].out = "rate" /\ log[2].out = "err" /\ log[3].out = "ok"

\* C7: safe_delete_message makes exactly one transport delete call and returns
\* normally whatever the transport did (deleted, "message to delete not
\* found", another bad request, any other error): nothing is raised to the
\* caller and the deletion is not retried.
C7_DeleteAbsorbsErrors ==
    /\ deleteCount > 0 => del = [calls |-> 1, result |-> "returned"]
    /\ Cardinality(DeleteEvents) = deleteCount
    /\ (escaped /\ InQuestionFlow) => events[Len(events)].ev = "send"

C7_Witness ==
    /\ \E i \in DeleteEvents : events[i].text = "other_error"
    /\ del = [calls |-> 1, result |-> "returned"]
    /\ pc = "pq_final"

\* C8: in every process_question flow the remote POST is issued only after
\* the placeholder was sent successfully (a handle came back); when the
\* placeholder send did not succeed the flow ends there, with no remote call,
\* no deletion and no further message.
C8_PostOnlyAfterPlaceholder ==
    /\ posts > 0 => processing_message.kind = "handle"
    /\ (InQuestionFlow /\ pc # "pq_placeholder" /\ processing_message.kind # "handle")
        => /\ pc = "done"
           /\ posts = 0
           /\ deleteCount = 0
           /\ Len(events) = 1

\* C9: in every process_question flow that has a placeholder, whatever the
\* remote call's outcome, the placeholder's deletion is attempted before the
\* answer or an error text is sent: no such send comes before a deletion
\* attempt, and a flow that issued the POST ends with a deletion attempt
\* followed by a send.
C9_DeleteBeforeFinalSend ==
    (InQuestionFlow /\ processing_message.kind = "handle") =>
        /\ \A i \in SendEvents :
             events[i].text \in FinalTexts => \E j \in DeleteEvents : j < i
        /\ (pc = "pq_final" /\ sendText \in FinalTexts) => deleteCount >= 1
        /\ (pc = "done" /\ posts > 0) =>
             /\ DeleteEvents # {}
             /\ events[Len(events)].ev = "send"

C9_Witness ==
    /\ pc = "done"
    /\ processing_message.kind = "handle"
    /\ Len(events) = 4
    /\ events[2] = Event("post", "timeout")
    /\ events[3].ev = "delete"
    /\ events[4] = Event("send", TEXT_TOO_LONG)

\* C10: the remote call is issued at most once per inbound message, and its
\* failure is answered with a fixed text: a timeout with the "took too long"
\* text, a non-200 status with the generic request-error text, any other
\* exception with the generic error text; every message sent on a failure
\* path is one of these constants, never the exception's text.
C10_FailureGetsStaticText ==
    /\ posts <= 1
    /\ Cardinality(PostEvents) = posts
    /\ \A p \in PostEvents : \A i \in SendEvents :
         i > p =>
            /\ events[p].text # "200" => events[i].text \in StaticErrorTexts
            /\ events[p].text = "200" =>
                   events[i].text \in {TEXT_RESPONSE, TEXT_ERROR_GENERIC}
            /\ (\A k \in SendEvents : k > p => k >= i) =>
                   /\ events[p].text = "timeout" => events[i].text = TEXT_TOO_LONG
                   /\ events[p].text = "non200" => events[i].text = TEXT_ERROR_REQUEST
                   /\ events[p].text \in {"error", "malformed"} =>
                          events[i].text = TEXT_ERROR_GENERIC
    /\ \A i \in SendEvents : events[i].text # TEXT_EXCEPTION

C10_Witness ==
    /\ pc = "done"
    /\ \E p \in PostEvents : events[p].text = "error"
    /\ events[Len(events)] = Event("send", TEXT_ERROR_GENERIC)

\* C11: an error raised in process_question after the placeholder send is
\* caught inside the handler: process_question never ends by raising to the
\* dispatcher, also when the send of the answer or of an error text fails.
C11_NothingEscapesQuestionFlow ==
    InQuestionFlow => ~escaped

\* C12: end to end, for a text received while the chat is AwaitingAnswer and
\* a 200 response that holds an answer and a non-empty `sources` list: the
\* placeholder is sent, then {chat_id, question} is posted, then the
\* placeholder is deleted, then the final message is sent; the final message
\* is the transformed answer followed by a sources section that numbers the
\* sources from 1.
C12_EndToEndWithSources ==
    ( /\ pc = "done"
      /\ InQuestionFlow
      /\ dispatchState = AwaitingAnswer
      /\ processing_message.kind = "handle"
      /\ posts = 1
      /\ events[2] = Event("post", "200")
      /\ {"answer", "sources"} \subseteq data.keys
      /\ data.sources # <<>> )
    => /\ payload = [chat_id |-> message.chat_id, question |-> message.text]
       /\ events[3].ev = "delete"
       /\ events[4] = Event("send", TEXT_RESPONSE)
       /\ response_text =
              markdown_to_html(data.answer) \o <<NL, NL>>
                  \o <<SOURCES_HEADER, NL>> \o SourceLines(data.sources, 1)

----------------------------------------------------------------------------
\* Vocabulary of the properties of markdown_to_html.

Markers == {"#", "*", BACKTICK}
HasNo(t, chars) == \A i \in 1..Len(t) : t[i] \notin chars
CountOf(t, c) == Cardinality({i \in 1..Len(t) : t[i] = c})
Hashes(k) == [i \in 1..k |-> "#"]

\* out = a \o part \o b for some a and b that satisfy Before(a) and After(b).
HoldsAt(out, part, i) ==
    /\ i + Len(part) - 1 <= Len(out)
    /\ SubSeq(out, i, i + Len(part) - 1) = part
Contains(out, part) == \E i \in 1..(Len(out) + 1) : HoldsAt(out, part, i)

\* The ways to read t as pre ** x ** post.
Runs(t) ==
    {r \in [from : 1..Len(t), to : 1..Len(t)] :
        /\ r.from + 1 < r.to
        /\ r.to + 1 <= Len(t)
        /\ t[r.from] = "*" /\ t[r.from + 1] = "*"
        /\ t[r.to] = "*" /\ t[r.to + 1] = "*"}
RunPre(t, r) == SubSeq(t, 1, r.from - 1)
RunX(t, r) == SubSeq(t, r.from + 2, r.to - 1)
RunPost(t, r) == SubSeq(t, r.to + 2, Len(t))
BoldOf(x) == <<"<b>">> \o x \o <<"</b>">>

\* The lines of a text.
RECURSIVE LinesFrom(_, _)
LinesFrom(t, i) ==
    LET e == LineEnd(t, i)
    IN IF e > Len(t) THEN <<SubSeq(t, i, Len(t))>>
       ELSE <<SubSeq(t, i, e - 1)>> \o LinesFrom(t, e + 1)
Lines(t) == LinesFrom(t, 1)

HeadingOpen(k) ==
    CASE k = 3 -> <<"<b>", "<i>">> [] k = 2 -> <<"<b>">> [] OTHER -> <<"<b>", "<u>">>
HeadingClose(k) ==
    CASE k = 3 -> <<"</i>", "</b>">> [] k = 2 -> <<"</b>">> [] OTHER -> <<"</u>", "</b>">>

\* The tags of a text close in the reverse order of their opening.
Closer(tag) ==
    CASE tag = "<b>" -> "</b>" [] tag = "<i>" -> "</i>"
      [] tag = "<u>" -> "</u>" [] OTHER -> "</code>"
OpenTags == {"<b>", "<i>", "<u>", "<code>"}
CloseTags == {"</b>", "</i>", "</u>", "</code>"}
RECURSIVE Nested(_, _, _)
Nested(t, i, stack) ==
    IF i > Len(t) THEN stack = <<>>
    ELSE IF t[i] \in OpenTags THEN Nested(t, i + 1, <<t[i]>> \o stack)
    ELSE IF t[i] \in CloseTags
         THEN /\ stack # <<>>
              /\ Closer(stack[1]) = t[i]
              /\ Nested(t, i + 1, Tail(stack))
    ELSE Nested(t, i + 1, stack)

----------------------------------------------------------------------------
\* C13: a text with none of the characters '#', '*' and backtick comes out of
\* markdown_to_html unchanged, and so does that result when transformed again.
C13_PlainTextUnchanged ==
    (mdPc \in {"once", "twice"} /\ HasNo(mdIn, Markers)) =>
        /\ mdOut = mdIn
        /\ mdPc = "twice" => mdAgain = mdIn

C13_Witness ==
    /\ mdPc = "twice"
    /\ mdIn = <<" ", "a", NL, "a", " ">>
    /\ mdAgain = mdIn

\* C14: for a text that holds a run **X** where X has no marker character,
\* markdown_to_html writes X wrapped in one <b>...</b> pair with both `**`
\* removed, whatever stands around the run (adjacent '*' too) and whatever
\* non-marker characters X holds (a line break too).
C14_BoldRunAnywhere ==
    mdPc = "once" =>
        \A r \in Runs(mdIn) :
            HasNo(RunX(mdIn, r), Markers) =>
                /\ Contains(mdOut, BoldOf(RunX(mdIn, r)))
                /\ CountOf(mdOut, "*") <= CountOf(mdIn, "*") - 4

\* C14 as amended: the same when no '*' stands before the run in the text and
\* X holds no line break: the result is a star-free part, then <b>X</b>, then
\* a part with no more '*' than the text had after the run.
C14_BoldRunAfterNoStar ==
    mdPc = "once" =>
        \A r \in Runs(mdIn) :
            ( /\ HasNo(RunX(mdIn, r), Markers \cup {NL})
              /\ HasNo(RunPre(mdIn, r), {"*"}) )
            => \E i \in 1..(Len(mdOut) + 1) :
                  LET bold == BoldOf(RunX(mdIn, r))
                  IN /\ HoldsAt(mdOut, bold, i)
                     /\ HasNo(SubSeq(mdOut, 1, i - 1), {"*"})
                     /\ CountOf(SubSeq(mdOut, i + Len(bold), Len(mdOut)), "*")
                            <= CountOf(RunPost(mdIn, r), "*")

C14_Witness ==
    /\ mdPc = "once"
    /\ mdIn = <<"#", "*", "*", "a", "*", "*", "*">>
    /\ mdOut = <<"#", "<b>", "a", "</b>", "*">>

\* C15: a line that starts with exactly k '#' and a space (k = 3, 2, 1) becomes
\* its remainder wrapped in <b><i>, <b>, <b><u> markup, with no '#' left at
\* the line start and the markup of one heading rule only; a line that starts
\* with four or more '#' is matched by no heading rule.
C15_HeadingLines ==
    mdPc = "once" =>
        LET in == Lines(mdIn)
            out == Lines(mdOut)
        IN /\ Len(out) = Len(in)
           /\ \A n \in 1..Len(in) :
                HasNo(in[n], {"*", BACKTICK}) =>
                   /\ \A k \in 1..3 :
                        ( /\ Len(in[n]) > k
                          /\ SubSeq(in[n], 1, k + 1) = Hashes(k) \o <<" ">> )
                        => out[n] = HeadingOpen(k)
                                      \o SubSeq(in[n], k + 2, Len(in[n]))
                                      \o HeadingClose(k)
                   /\ ( /\ Len(in[n]) >= 4
                        /\ SubSeq(in[n], 1, 4) = Hashes(4) )
                      => out[n] = in[n]

C15_Witness ==
    /\ mdPc = "once"
    /\ mdIn = <<"#", "#", "#", " ", "a">>
    /\ mdOut = <<"<b>", "<i>", "a", "</i>", "</b>">>

\* C18: in the result of markdown_to_html every opening tag written by a rule
\* is closed by that rule's closing tag, in properly nested order, for every
\* input (adjacent or nested marker runs such as ***X*** too): no later rule
\* matches across the markup of an earlier one.
C18_TagsProperlyNested ==
    mdPc \in {"once", "twice"} => Nested(mdOut, 1, <<>>)

----------------------------------------------------------------------------
FinalSendEvents == {i \in SendEvents : events[i].text \in FinalTexts}
FinalDelivered == {i \in 1..Len(delivered) : delivered[i] \in FinalTexts}

\* C17: the conversation state only routes: a remote call is issued for an
\* update only if the state the dispatcher read was AwaitingAnswer and the
\* update is not a /start, /help or /restart command; in state Idle a
\* non-command update gets the echo text and no remote call; process_question,
\* cmd_help and echo leave the state as it was.
C17_StateOnlyRoutes ==
    /\ posts > 0 =>
          /\ dispatchState = AwaitingAnswer
          /\ inbound \notin {"start", "help", "restart"}
    /\ (pc = "done" /\ inbound = "text" /\ dispatchState = Idle) =>
          /\ posts = 0
          /\ events = <<Event("send", TEXT_ECHO)>>
    /\ (inbound \in {"text", "help"} /\ pc # "idle") => fsm = dispatchState

C17_Witness ==
    /\ pc = "done"
    /\ inbound = "text"
    /\ dispatchState = AwaitingAnswer
    /\ posts = 1
    /\ fsm = AwaitingAnswer

\* C19: in one process_question flow the placeholder's deletion is attempted
\* at most once and at most one final message (the answer or one error text)
\* is sent after it, on every path, the one where the answer's send fails too.
C19_OneDeletionOneFinalSend ==
    InQuestionFlow =>
        /\ deleteCount <= 1
        /\ Cardinality(FinalSendEvents) <= 1

\* C19 as amended: the deletion is attempted at most twice and at most two
\* final sends are made; the second deletion and the second send, which is of
\* the generic error text, happen only after the send of the answer or of the
\* request-error text raised; at most one final message is delivered.
C19_SecondRoundOnlyAfterFailedSend ==
    InQuestionFlow =>
        /\ deleteCount <= 2
        /\ Cardinality(FinalSendEvents) <= 2
        /\ Cardinality(FinalDelivered) <= 1
        /\ \A i, j \in FinalSendEvents :
              i < j => /\ events[i].text \in {TEXT_RESPONSE, TEXT_ERROR_REQUEST}
                       /\ events[j].text = TEXT_ERROR_GENERIC
                       /\ \A k \in 1..Len(delivered) : delivered[k] # events[i].text
        /\ deleteCount = 2 => \E i \in FinalSendEvents : \E j \in DeleteEvents : i < j

C19_Witness ==
    /\ pc = "done"
    /\ deleteCount = 2
    /\ Cardinality(FinalSendEvents) = 2
    /\ delivered = <<TEXT_PROCESSING, TEXT_ERROR_GENERIC>>

\* C20: when the handling of /start or /restart has finished, normally or by a
\* failed reply send, the chat's state is AwaitingAnswer.
C20_StartAlwaysEndsAwaiting ==
    (pc = "done" /\ inbound \in {"start", "restart"}) => fsm = AwaitingAnswer

\* C20 as amended: when the handling of /start or /restart has finished
\* normally the chat's state is AwaitingAnswer; when its reply send failed
\* the state is left cleared (Idle).
C20_StartEndsAwaitingUnlessSendFailed ==
    (pc = "done" /\ inbound \in {"start", "restart"}) =>
        /\ ~escaped => fsm = AwaitingAnswer
        /\ escaped => fsm = Idle

C20_Witness ==
    /\ pc = "done"
    /\ inbound = "restart"
    /\ ~escaped
    /\ dispatchState = Idle
    /\ fsm = AwaitingAnswer

----------------------------------------------------------------------------
\* C16: handlers of two updates of one chat are not serialized and race on
\* the conversation state: a routing decision can read the chat's state while
\* another running handler of the same chat is between clearing it and
\* setting it to AwaitingAnswer (the witness); handlers of different chats
\* never read or write each other's state: a chat's state changes only in a
\* step of a handler of that chat, and a routing decision depends on the
\* state of the update's own chat only.
C16_ChatsIsolated ==
    [][ /\ \A c \in Chats :
             cfsm'[c] # cfsm[c] =>
                \E t \in TaskIds : /\ tasks[t].chat = c
                                   /\ tasks[t].pc \in {"clear", "set"}
                                   /\ tasks'[t] # tasks[t]
        /\ \A t \in TaskIds :
             (tasks[t].pc = "idle" /\ tasks'[t].pc # "idle") =>
                tasks'[t].handler = Route(tasks'[t].kind, cfsm[tasks'[t].chat])
      ]_vars

C16_Witness ==
    \E t, u \in TaskIds :
        /\ t # u
        /\ tasks[t].chat = tasks[u].chat
        /\ tasks[u].handler = "cmd_start" /\ tasks[u].pc = "answer"
        /\ tasks[u].before = AwaitingAnswer
        /\ tasks[t].raced
        /\ tasks[t].kind = "text" /\ tasks[t].handler = "echo"

====
